---- MODULE Spec2Model ----
(***************************************************************************)
(* A model of utilities/wren_wrapper/wren_wrapper.py: the command          *)
(* dispatcher (main), the backend locator and config resolver, the         *)
(* interactive disambiguator, the cron / future / exact-done helpers, and  *)
(* the notes directory they act on.                                        *)
(*                                                                         *)
(* Program strings are sequences of one-character strings, so that         *)
(* strip / split / startswith / index are computed as Python computes      *)
(* them.  Tags of the model itself (pc values, event kinds) are TLA+       *)
(* strings.                                                                *)
(***************************************************************************)
EXTENDS Integers, Sequences, FiniteSets, TLC

(***************************************************************************)
(* Python str helpers                                                      *)
(***************************************************************************)

\* str.strip() / \s of re: the ASCII whitespace characters of the alphabet.
IsSpace(c) == c \in {" ", "\t", "\n", "\r", "\f"}

RECURSIVE LStrip(_)
LStrip(s) == IF s # <<>> /\ IsSpace(Head(s)) THEN LStrip(Tail(s)) ELSE s

RECURSIVE RStrip(_)
RStrip(s) ==
    IF s # <<>> /\ IsSpace(s[Len(s)]) THEN RStrip(SubSeq(s, 1, Len(s) - 1)) ELSE s

\* str.strip()
Strip(s) == RStrip(LStrip(s))

\* str.startswith(prefix)
StartsWith(s, prefix) ==
    /\ Len(s) >= Len(prefix)
    /\ SubSeq(s, 1, Len(prefix)) = prefix

\* str.split(sep) for a one-character separator: never drops empty pieces.
RECURSIVE SplitAcc(_, _, _)
SplitAcc(s, sep, cur) ==
    IF s = <<>> THEN <<cur>>
    ELSE IF Head(s) = sep THEN <<cur>> \o SplitAcc(Tail(s), sep, <<>>)
    ELSE SplitAcc(Tail(s), sep, Append(cur, Head(s)))

Split(s, sep) == SplitAcc(s, sep, <<>>)

\* The maximal runs of non-whitespace characters of s, in order.
RECURSIVE FieldsAcc(_, _)
FieldsAcc(s, cur) ==
    IF s = <<>> THEN (IF cur = <<>> THEN <<>> ELSE <<cur>>)
    ELSE IF IsSpace(Head(s))
         THEN (IF cur = <<>> THEN <<>> ELSE <<cur>>) \o FieldsAcc(Tail(s), <<>>)
         ELSE FieldsAcc(Tail(s), Append(cur, Head(s)))

Fields(s) == FieldsAcc(s, <<>>)

\* str.lower() on the alphabet used for selections.
LowerChar(c) == IF c = "Q" THEN "q" ELSE c

Lower(s) == [i \in 1..Len(s) |-> LowerChar(s[i])]

\* list.index(x): the first position of x, 0 when absent (Python raises ValueError).
Index(lst, x) ==
    IF \E i \in 1..Len(lst) : lst[i] = x
    THEN CHOOSE i \in 1..Len(lst) : lst[i] = x /\ \A j \in 1..(i - 1) : lst[j] # x
    ELSE 0

\* x in lst
Contains(lst, x) == \E i \in 1..Len(lst) : lst[i] = x

IsDigit(c) == c \in {"0", "1", "2", "3", "4", "5", "6", "7", "8", "9"}

DigitVal(c) ==
    CASE c = "0" -> 0 [] c = "1" -> 1 [] c = "2" -> 2 [] c = "3" -> 3 [] c = "4" -> 4
      [] c = "5" -> 5 [] c = "6" -> 6 [] c = "7" -> 7 [] c = "8" -> 8 [] c = "9" -> 9

RECURSIVE DigitsVal(_, _)
DigitsVal(s, acc) ==
    IF s = <<>> THEN acc ELSE DigitsVal(Tail(s), 10 * acc + DigitVal(Head(s)))

AllDigits(s) == s # <<>> /\ \A i \in 1..Len(s) : IsDigit(s[i])

\* int(s): surrounding whitespace is ignored, one optional sign, then decimal
\* digits.  IntOk is FALSE where int() raises ValueError.
IntBody(s) ==
    LET t == Strip(s) IN
    IF t # <<>> /\ Head(t) \in {"+", "-"} THEN Tail(t) ELSE t

IntOk(s) == AllDigits(IntBody(s))

IntVal(s) ==
    LET t == Strip(s) IN
    IF t # <<>> /\ Head(t) = "-" THEN 0 - DigitsVal(IntBody(s), 0)
    ELSE DigitsVal(IntBody(s), 0)


(***************************************************************************)
(* Inputs: the strings an invocation is given                              *)
(***************************************************************************)

DashD == <<"-", "d">>
DashDone == <<"-", "-", "d", "o", "n", "e">>
DashL == <<"-", "l">>
Foo == <<"f", "o", "o">>
HelpArg == <<"-", "-", "h", "e", "l", "p">>

\* Task titles given to --cron / --future / --exact.
TitleT == <<"T">>
TitleSub == <<"a", "/", "T">>
Titles == {TitleT, TitleSub}

\* The residual argument lists parse_known_args leaves for the backend.
RestLists ==
    { <<>>,
      <<DashL>>,
      <<DashD, Foo>>,
      <<DashDone, Foo, DashL>>,
      <<DashD>>,
      <<DashD, DashL>>,
      <<DashDone, Foo, DashD>>,
      <<Foo, DashD, Foo>>,
      <<DashD, <<>>>> }

\* What the backend may print on stdout for the listing query.
Stdouts ==
    { <<>>,
      <<"E", "r", "r", "o", "r", " ", "-", " ", "n", "o">>,
      <<"-", " ", "a">>,
      <<" ", " ", "-", " ", "a", "\n", " ", " ", "-", " ", "b">>,
      <<"-", " ", "a", "\n", "\n", "-", " ", "b", "\n", "c", " ", "\n">>,
      <<"-", " ", "a", "\n", "E", "r", "r", "o", "r", " ", "-", "\n", "-", " ", "a">> }

\* Exit codes a backend process may return.
Returncodes == {0, 1, 3}

\* What may arrive at the selection prompt: a line of text, or the end of
\* input / an interrupt (EOFError, KeyboardInterrupt raised by input()).
SelectionLines ==
    { <<"1">>, <<"2">>, <<"3">>, <<"0">>, <<"4">>, <<"-", "1">>, <<" ", "2", " ">>,
      <<"q">>, <<"Q">>, <<"x">>, <<>> }

\* The largest number of lines read at one prompt loop before the input ends.
MaxPrompts == 2

WrapperCommands == {"cron", "future", "exact"}
Options == WrapperCommands \cup {"help", "verbose", "quiet"}

(***************************************************************************)
(* State                                                                   *)
(***************************************************************************)
VARIABLES
    given,            \* the options present in the parsed namespace `args`
    title,            \* the TASK_TITLE value of the command options given
    remaining_args,   \* the residual argument list
    VERBOSE, QUIET,   \* the module globals
    pc,               \* where the invocation is
    exitCode,         \* <<>> while running, <<code>> once the process has ended
    calls,            \* the backend invocations so far: [args, capture_output]
    out,              \* what was written to stdout, in order
    err,              \* what was written to stderr, in order
    ops,              \* the filesystem / environment interactions so far, in order
    pattern,          \* handle_interactive_done: pattern
    candidates,       \* handle_interactive_done: candidates
    final_args,       \* handle_interactive_done: final_args of the chosen task
    list_stdout,      \* handle_interactive_done: list_result.stdout
    choice,           \* handle_interactive_done: choice, 0 before the first int()
    wren_path,        \* main: "unset", then "found" or "none" (shutil.which)
    prompts,          \* lines read so far at the current prompt loop
    notes,            \* what the configured notes_dir path is: "absent", "dir", "file"
    dirs,             \* the directories below notes_dir (paths relative to it)
    files,            \* the regular files below notes_dir: path -> content
    schedule,         \* handle_cron: schedule / handle_future: date_str
    ioErr,            \* whether the environment has failed an I/O request
    creations,        \* the paths at which a file creation has succeeded, in order
    runNo,            \* which invocation this is (1 = the first)
    prev,             \* how the invocation before this one ended
    rival,            \* a second wrapper invocation at its creation step
    on_path,          \* whether a "wren" executable is on the search path
    config,           \* what get_notes_dir found at ~/.config/wren/wren.json
    notes_dir,        \* the path get_notes_dir returned, <<>> before it returns
    picker,           \* how the graphical date picker ended, <<>> before it is run
    entered,          \* what the last input() call gave: a line, or its end
    roi,              \* run_on_interval.main: its arguments, position and effects
    parsed            \* the candidate parser applied to one stdout text

vars == <<given, title, remaining_args, VERBOSE, QUIET, pc, exitCode, calls, out,
          err, ops, pattern, candidates, final_args, list_stdout, choice, wren_path,
          prompts, notes, dirs, files, schedule, ioErr, creations, runNo, prev, rival,
          on_path, config, notes_dir, picker, entered, roi, parsed>>

\* What no step of the wrapper changes: its command line, and the state of
\* the repository's other programs.
run == <<given, title, remaining_args, roi, parsed>>

\* The wrapper's own state.
wrapper == <<given, title, remaining_args, VERBOSE, QUIET, pc, exitCode, calls, out,
             err, ops, pattern, candidates, final_args, list_stdout, choice, wren_path,
             prompts, notes, dirs, files, schedule, ioErr, creations, runNo, prev, rival,
             on_path, config, notes_dir, picker, entered>>
resolver == <<config, notes_dir>>
io == <<picker, entered>>
env == <<wren_path, on_path, resolver, io>>
hid == <<pattern, candidates, final_args, list_stdout, choice>>
fs == <<notes, dirs, files, creations>>
hist == <<runNo, prev, rival>>

\* What input() gave: a line of text, or the exception it raised.
Line(text) == [kind |-> "line", text |-> text]
InputEnds == { [kind |-> "EOFError", text |-> <<>>],
               [kind |-> "KeyboardInterrupt", text |-> <<>>] }
NoInput == [kind |-> "none", text |-> <<>>]

\* An event on stdout: who wrote it ("quiet" = print_quiet, "print" = print,
\* "prompt" = the prompt of input()), which message, and its parameters.
Ev(ch, msg, n, text) == [ch |-> ch, msg |-> msg, n |-> n, text |-> text]

\* print_quiet(message)
print_quiet(o, msg, n, text) == IF ~QUIET THEN Append(o, Ev("quiet", msg, n, text)) ELSE o

\* print_verbose(message)
print_verbose(e, msg) == IF VERBOSE /\ ~QUIET THEN Append(e, <<"verbose", msg>>) ELSE e

\* print(message, file=sys.stderr)
print_err(e, msg) == Append(e, <<"error", msg>>)

\* run_wren(wren_path, args, capture_output): the invocation it records, with
\* the exit code the backend returned, and the verbose line it logs.
run_wren(cs, args, capture, rc) ==
    Append(cs, [args |-> args, capture |-> capture, returncode |-> rc])

run_wren_log(e) == print_verbose(e, "Executing")

(***************************************************************************)
(* Candidate Parser (handle_interactive_done, lines 103-111)               *)
(***************************************************************************)
ErrorSentinel == <<"E", "r", "r", "o", "r", " ", "-">>
ListMarker == <<"-", " ">>

\* lines = [line.strip() for line in stdout.strip().split("\n")]
StdoutLines(stdout) ==
    LET raw == Split(Strip(stdout), "\n") IN [i \in 1..Len(raw) |-> Strip(raw[i])]

\* A filter that keeps the error lines.
KeepNonEmpty(line) == line # <<>>

\* Line 110: if line and not line.startswith("Error -")
KeepLine(line) == line # <<>> /\ ~StartsWith(line, ErrorSentinel)

StripMarker(line) ==
    IF StartsWith(line, ListMarker) THEN SubSeq(line, 3, Len(line)) ELSE line

ParseCandidates(stdout) ==
    IF stdout = <<>> THEN <<>>
    ELSE LET kept == SelectSeq(StdoutLines(stdout), KeepLine)
         IN  [i \in 1..Len(kept) |-> StripMarker(kept[i])]

(***************************************************************************)
(* main: argument parsing, backend locator, help, mutual exclusion         *)
(***************************************************************************)
Exit(code) == pc' = "exit" /\ exitCode' = <<code>>

\* An exception nothing catches: the interpreter prints a traceback and the
\* process ends with status 1.
Fault == pc' = "fault" /\ exitCode' = <<1>>

\* parse_known_args and the two globals (lines 329-349).  argparse itself
\* rejects -v together with -q (the mutually exclusive group): parser.error
\* prints the usage and exits 2.
ParseArgs ==
    /\ pc = "parse"
    /\ IF {"verbose", "quiet"} \subseteq given
       THEN /\ err' = print_err(err, "argparse: not allowed with argument")
            /\ Exit(2)
            /\ UNCHANGED <<VERBOSE, QUIET>>
       ELSE /\ VERBOSE' = ("verbose" \in given)
            /\ QUIET' = ("quiet" \in given)
            /\ pc' = "find_wren"
            /\ UNCHANGED <<err, exitCode>>
    /\ UNCHANGED <<hist, run, env, calls, out, ops, hid, prompts, fs, schedule, ioErr>>

\* shutil.which("wren") (line 42)
which_wren == on_path

\* A program that goes on after the lookup has failed.
LookupIgnored == pc' = "located" /\ UNCHANGED exitCode

\* Lines 43-45: the lookup failed.
LookupFailed == Exit(2)

\* find_wren_executable (lines 40-47, called at line 351)
FindWren ==
    /\ pc = "find_wren"
    /\ ops' = Append(ops, "which_wren")
    /\ IF ~which_wren
       THEN /\ wren_path' = "none"
            /\ err' = print_err(err, "wren not found")
            /\ LookupFailed
       ELSE /\ wren_path' = "found"
            /\ err' = print_verbose(err, "Found wren")
            /\ pc' = "located"
            /\ UNCHANGED exitCode
    /\ UNCHANGED <<hist, run, VERBOSE, QUIET, calls, out, hid, prompts, fs, schedule, ioErr,
                   on_path, resolver, io>>

\* The help flag honoured only when it is the one option given.
help_alone == given = {"help"}

\* Line 353: "help" in args and args.help
help_requested == "help" \in given

\* Help, line 354: the backend's own help, printed by the backend.
Help ==
    /\ pc = "located"
    /\ help_requested
    /\ \E rc \in Returncodes : calls' = run_wren(calls, <<HelpArg>>, FALSE, rc)
    /\ err' = run_wren_log(err)
    /\ pc' = "help_print"
    /\ UNCHANGED <<hist, run, env, VERBOSE, QUIET, exitCode, out, ops, hid, prompts, fs, schedule,
                   ioErr>>

\* Help, lines 355-357: the wrapper's header and parser help, then exit 0.
HelpPrint ==
    /\ pc = "help_print"
    /\ out' = Append(Append(out, Ev("print", "wrapper help header", 0, <<>>)),
                     Ev("print", "parser help", 0, <<>>))
    /\ Exit(0)
    /\ UNCHANGED <<hist, run, env, VERBOSE, QUIET, calls, err, ops, hid, prompts, fs, schedule,
                   ioErr>>

CountCronAndFuture == Cardinality(given \cap {"cron", "future"})

\* command_count (line 360)
command_count == Cardinality(given \cap WrapperCommands)

\* Mutually exclusive wrapper commands (lines 360-366)
MutexError ==
    /\ pc = "located"
    /\ ~help_requested
    /\ command_count > 1
    /\ err' = print_err(err, "mutually exclusive")
    /\ Exit(1)
    /\ UNCHANGED <<hist, run, env, VERBOSE, QUIET, calls, out, ops, hid, prompts, fs, schedule,
                   ioErr>>

(***************************************************************************)
(* Config Resolver: get_notes_dir (lines 50-82, called at line 368)        *)
(***************************************************************************)
\* What ~/.config/wren/wren.json may be: absent, not JSON, a JSON object
\* without "notes_dir", JSON that is no object, an object whose "notes_dir"
\* is no string, or well formed.
ConfigKinds == {"missing", "bad_json", "no_key", "not_object", "non_string", "ok"}

\* Values of "notes_dir" in a well-formed configuration: an absolute path,
\* a path relative to the working directory, a path below the home directory.
NotesDirStrs == { <<"/", "n">>, <<"n">>, <<"~", "/", "n">> }

Configs ==
    { [kind |-> k, notes_dir |-> <<>>] : k \in ConfigKinds \ {"ok"} }
    \cup { [kind |-> "ok", notes_dir |-> d] : d \in NotesDirStrs }

NoConfig == [kind |-> "unread", notes_dir |-> <<>>]

\* pathlib.Path.home()
Home == <<"/", "h">>

\* pathlib.Path(notes_dir_str).expanduser() (line 63): a leading "~" part is
\* replaced by the home directory, any other path is left as written.
expanduser(p) ==
    IF p = <<"~">> \/ StartsWith(p, <<"~", "/">>) THEN Home \o Tail(p) ELSE p

\* notes_dir.exists() (line 71): true of a directory and of a regular file.
exists == notes # "absent"

GetNotesDir ==
    /\ pc = "located"
    /\ ~help_requested
    /\ command_count <= 1
    /\ \E cfg \in Configs, mkdirFails \in BOOLEAN :
        /\ config' = cfg
        /\ CASE cfg.kind = "missing" ->
               /\ ~mkdirFails
               /\ ops' = Append(ops, "config_is_file")
               /\ err' = print_err(print_verbose(err, "Reading config"), "config not found")
               /\ Exit(2)
               /\ UNCHANGED <<notes, ioErr, notes_dir>>
          [] cfg.kind \in {"bad_json", "no_key"} ->
               /\ ~mkdirFails
               /\ ops' = ops \o <<"config_is_file", "config_read">>
               /\ err' = print_err(print_verbose(err, "Reading config"), "could not read notes_dir")
               /\ Exit(2)
               /\ UNCHANGED <<notes, ioErr, notes_dir>>
          [] cfg.kind \in {"not_object", "non_string"} ->
               \* TypeError from config["notes_dir"] or pathlib.Path(value):
               \* not among the exceptions line 64 catches.
               /\ ~mkdirFails
               /\ ops' = ops \o <<"config_is_file", "config_read">>
               /\ err' = print_err(print_verbose(err, "Reading config"), "Traceback")
               /\ Fault
               /\ UNCHANGED <<notes, ioErr, notes_dir>>
          [] cfg.kind = "ok" /\ exists ->
               /\ ~mkdirFails
               /\ ops' = ops \o <<"config_is_file", "config_read", "notes_exists",
                                  "get_notes_dir returned">>
               /\ err' = print_verbose(err, "Reading config")
               /\ notes_dir' = expanduser(cfg.notes_dir)
               /\ pc' = "dispatch"
               /\ UNCHANGED <<notes, ioErr, exitCode>>
          [] cfg.kind = "ok" /\ ~exists /\ (mkdirFails \/ notes # "absent") ->
               \* mkdir raises an OSError: the environment refuses, or the
               \* path is taken by something that is no directory
               /\ notes = "absent" \/ ~mkdirFails
               /\ ops' = ops \o <<"config_is_file", "config_read", "notes_exists",
                                  "mkdir_notes">>
               /\ err' = print_err(print_verbose(print_verbose(err, "Reading config"),
                                                 "Creating notes dir"),
                                   "could not create notes directory")
               /\ ioErr' = (ioErr \/ mkdirFails)
               /\ Exit(1)
               /\ UNCHANGED <<notes, notes_dir>>
          [] cfg.kind = "ok" /\ ~exists /\ notes = "absent" /\ ~mkdirFails ->
               /\ ops' = ops \o <<"config_is_file", "config_read", "notes_exists",
                                  "mkdir_notes", "get_notes_dir returned">>
               /\ err' = print_verbose(print_verbose(err, "Reading config"),
                                       "Creating notes dir")
               /\ notes' = "dir"
               /\ notes_dir' = expanduser(cfg.notes_dir)
               /\ pc' = "dispatch"
               /\ UNCHANGED <<ioErr, exitCode>>
    /\ UNCHANGED <<hist, run, wren_path, on_path, io, VERBOSE, QUIET, calls, out, hid, prompts,
                   dirs, files, creations, schedule>>

(***************************************************************************)
(* main: routing (lines 370-406)                                           *)
(***************************************************************************)
\* The token after the mark-done flag main looks at (lines 381-396), <<>>
\* when there is none (done_pattern stays None, or is the empty string:
\* both are falsy at line 398).
d_index(ra) == IF Contains(ra, DashD) THEN Index(ra, DashD) ELSE Index(ra, DashDone)

DonePattern(ra) ==
    IF /\ Contains(ra, DashD) \/ Contains(ra, DashDone)
       /\ d_index(ra) + 1 <= Len(ra)
       /\ ~StartsWith(ra[d_index(ra) + 1], <<"-">>)
    THEN ra[d_index(ra) + 1]
    ELSE <<>>

\* What lines 389 and 394 log when no usable pattern is found.
DoneDetectionLog(e, ra) ==
    IF ~(Contains(ra, DashD) \/ Contains(ra, DashDone)) THEN e
    ELSE IF d_index(ra) + 1 <= Len(ra) /\ ~StartsWith(ra[d_index(ra) + 1], <<"-">>)
         THEN print_verbose(print_verbose(e, "d_index"), "done_pattern")
         ELSE print_verbose(e, "d_index")

\* A routing without the branch of line 374.
RouteWithoutExact ==
    IF "cron" \in given THEN "cron_prompt"
    ELSE IF "future" \in given THEN "future"
    ELSE IF DonePattern(remaining_args) # <<>> THEN "hid_list"
    ELSE "proxy"

\* Where main goes after get_notes_dir: the if/elif chain of lines 370-375
\* (each handler ends the process), else lines 398-406.
Route ==
    IF "cron" \in given THEN "cron_prompt"
    ELSE IF "future" \in given THEN "future"
    ELSE IF "exact" \in given THEN "exact"
    ELSE IF DonePattern(remaining_args) # <<>> THEN "hid_list"
    ELSE "proxy"

\* Lines 370-406 up to the first point where the process waits.
Dispatch ==
    /\ pc = "dispatch"
    /\ CASE Route = "cron_prompt" ->
              /\ out' = print_quiet(out, "cron cheat-sheet", 0, <<>>)
              /\ pc' = "cron_prompt"
              /\ UNCHANGED <<err, pattern>>
         [] Route = "future" ->
              /\ pc' = "future"
              /\ UNCHANGED <<out, err, pattern>>
         [] Route = "exact" ->
              /\ pc' = "exact"
              /\ UNCHANGED <<out, err, pattern>>
         [] Route = "hid_list" ->
              /\ pattern' = DonePattern(remaining_args)
              /\ err' = print_verbose(print_verbose(print_verbose(print_verbose(
                            print_verbose(err, "d_index"), "done_pattern"),
                            "remaining_args"), "calling handle_interactive_done"),
                            "Finding candidates")
              /\ pc' = "hid_list"
              /\ UNCHANGED out
         [] Route = "proxy" ->
              /\ err' = print_verbose(DoneDetectionLog(err, remaining_args),
                                      "proxying to wren")
              /\ pc' = "proxy"
              /\ UNCHANGED <<out, pattern>>
    /\ UNCHANGED <<hist, run, env, VERBOSE, QUIET, exitCode, calls, ops, candidates,
                   final_args, list_stdout, choice, prompts, fs, schedule, ioErr>>

SuccessOrFailure(returncode) == IF returncode = 0 THEN 0 ELSE 1

\* sys.exit(result.returncode) (lines 134, 147, 406)
PropagatedCode(returncode) == returncode

\* The plain proxy (lines 405-406)
Proxy ==
    /\ pc = "proxy"
    /\ \E rc \in Returncodes :
        /\ calls' = run_wren(calls, remaining_args, FALSE, rc)
        /\ err' = run_wren_log(err)
        /\ Exit(PropagatedCode(rc))
    /\ UNCHANGED <<hist, run, env, VERBOSE, QUIET, out, ops, hid, prompts, fs, schedule, ioErr>>

(***************************************************************************)
(* Interactive Disambiguator: handle_interactive_done (lines 96-147)       *)
(***************************************************************************)
\* The menu (lines 114-116): the question, then one numbered line per
\* candidate, each through print_quiet.
RECURSIVE MenuLinesFromZero(_, _, _)
MenuLinesFromZero(o, cands, i) ==
    IF i >= Len(cands) THEN o
    ELSE MenuLinesFromZero(print_quiet(o, "menu item", i, cands[i + 1]), cands, i + 1)

RECURSIVE MenuLines(_, _, _)
MenuLines(o, cands, i) ==
    IF i >= Len(cands) THEN o
    ELSE MenuLines(print_quiet(o, "menu item", i + 1, cands[i + 1]), cands, i + 1)

Menu(o, pat, cands) == MenuLines(print_quiet(o, "Multiple tasks match", 0, pat), cands, 0)

NeedsMenuForOne(cands) == Len(cands) > 0

\* len(candidates) > 1 (line 113)
NeedsMenu(cands) == Len(cands) > 1

\* Lines 101-116 and 145: the listing query, the candidates, the menu.
HidList ==
    /\ pc = "hid_list"
    /\ \E stdout \in Stdouts, rc \in Returncodes :
        /\ calls' = run_wren(calls, <<DashD, pattern>>, TRUE, rc)
        /\ list_stdout' = stdout
        /\ candidates' = ParseCandidates(stdout)
        /\ IF NeedsMenu(candidates')
           THEN /\ out' = Menu(out, pattern, candidates')
                /\ err' = print_verbose(run_wren_log(err), "list_result.stdout")
                /\ pc' = "select"
           ELSE /\ err' = print_verbose(print_verbose(run_wren_log(err),
                              "list_result.stdout"), "Zero or one candidate found")
                /\ pc' = "hid_proxy"
                /\ UNCHANGED out
    /\ UNCHANGED <<hist, run, env, VERBOSE, QUIET, exitCode, ops, pattern, final_args,
                   choice, prompts, fs, schedule, ioErr>>

\* Lines 146-147: zero or one candidate, the original command.
HidProxy ==
    /\ pc = "hid_proxy"
    /\ \E rc \in Returncodes :
        /\ calls' = run_wren(calls, remaining_args, FALSE, rc)
        /\ err' = run_wren_log(err)
        /\ Exit(PropagatedCode(rc))
    /\ UNCHANGED <<hist, run, env, VERBOSE, QUIET, out, ops, hid, prompts, fs, schedule, ioErr>>

SubstituteEvery(args, pat, chosen_task) ==
    [i \in 1..Len(args) |-> IF args[i] = pat THEN chosen_task ELSE args[i]]

\* Lines 129-131: final_args = list(remaining_args) with the first
\* occurrence of pattern replaced by the chosen task.
SubstitutePattern(args, pat, chosen_task) ==
    [args EXCEPT ![Index(args, pat)] = chosen_task]

RequeryAfterInvalidSelection == "hid_list"

\* Where the loop of line 118 continues after an input it does not act on.
AfterInvalidSelection == "select"

\* The prompt of input() at line 120.
SelectionPrompt(o) == Append(o, Ev("prompt", "Selection", Len(candidates), <<>>))

\* A quit sentinel that must be typed in lower case.
IsQuitLowerCase(selection) == selection = <<"q">>

\* Line 121: selection.lower() == "q"
IsQuit(selection) == Lower(selection) = <<"q">>

\* One line read at the prompt (lines 120-138).
HidSelectLine ==
    /\ pc = "select"
    /\ prompts < MaxPrompts
    /\ \E selection \in SelectionLines :
        /\ entered' = Line(selection)
        /\ CASE IsQuit(selection) ->
               /\ out' = print_quiet(SelectionPrompt(out), "Aborted.", 0, <<>>)
               /\ Exit(1)
               /\ UNCHANGED <<final_args, choice, prompts>>
          [] ~IsQuit(selection) /\ ~IntOk(selection) ->
               \* int() raises ValueError
               /\ out' = print_quiet(SelectionPrompt(out), "Invalid input.", 0, <<>>)
               /\ pc' = AfterInvalidSelection
               /\ prompts' = prompts + 1
               /\ UNCHANGED <<final_args, choice, exitCode>>
          [] /\ ~IsQuit(selection) /\ IntOk(selection)
             /\ ~(1 <= IntVal(selection) /\ IntVal(selection) <= Len(candidates)) ->
               /\ out' = print_quiet(SelectionPrompt(out), "Invalid selection.", 0, <<>>)
               /\ choice' = IntVal(selection)
               /\ pc' = AfterInvalidSelection
               /\ prompts' = prompts + 1
               /\ UNCHANGED <<final_args, exitCode>>
          [] /\ ~IsQuit(selection) /\ IntOk(selection)
             /\ 1 <= IntVal(selection) /\ IntVal(selection) <= Len(candidates)
             /\ Index(remaining_args, pattern) = 0 ->
               \* final_args.index(pattern) raises ValueError
               /\ out' = print_quiet(SelectionPrompt(out), "Invalid input.", 0, <<>>)
               /\ choice' = IntVal(selection)
               /\ pc' = AfterInvalidSelection
               /\ prompts' = prompts + 1
               /\ UNCHANGED <<final_args, exitCode>>
          [] /\ ~IsQuit(selection) /\ IntOk(selection)
             /\ 1 <= IntVal(selection) /\ IntVal(selection) <= Len(candidates)
             /\ Index(remaining_args, pattern) # 0 ->
               /\ out' = SelectionPrompt(out)
               /\ choice' = IntVal(selection)
               /\ final_args' = SubstitutePattern(remaining_args, pattern,
                                                  candidates[IntVal(selection)])
               /\ pc' = "hid_final"
               /\ prompts' = prompts + 1
               /\ UNCHANGED exitCode
    /\ UNCHANGED <<hist, run, wren_path, on_path, resolver, picker, VERBOSE, QUIET, calls, err, ops, pattern, candidates,
                   list_stdout, fs, schedule, ioErr>>

\* End of input or an interrupt at the prompt (lines 139-141).
HidSelectAbort ==
    /\ pc = "select"
    /\ out' = SelectionPrompt(out)
    /\ \E how \in InputEnds : entered' = how
    /\ err' = print_err(err, "Aborted by user.")
    /\ Exit(1)
    /\ UNCHANGED <<hist, run, wren_path, on_path, resolver, picker, VERBOSE, QUIET, calls, ops, hid, prompts, fs, schedule,
                   ioErr>>

\* Lines 133-134: the final action with the substituted arguments.
HidFinal ==
    /\ pc = "hid_final"
    /\ \E rc \in Returncodes :
        /\ calls' = run_wren(calls, final_args, FALSE, rc)
        /\ err' = run_wren_log(err)
        /\ Exit(PropagatedCode(rc))
    /\ UNCHANGED <<hist, run, env, VERBOSE, QUIET, out, ops, hid, prompts, fs, schedule, ioErr>>

(***************************************************************************)
(* The notes directory                                                     *)
(***************************************************************************)
\* notes_dir / name: pathlib splits at "/" and drops empty and "." parts.
\* A path is the sequence of parts below notes_dir.
IsPart(part) == part # <<>> /\ part # <<".">>

PathOf(name) == SelectSeq(Split(name, "/"), IsPart)

Parent(path) == SubSeq(path, 1, Len(path) - 1)

IsDir(path) == notes = "dir" /\ (path = <<>> \/ path \in dirs)

\* pathlib.Path.is_file()
IsFile(path) == notes = "dir" /\ path \in DOMAIN files

\* open(path, "w") instead: an existing regular file is opened and truncated.
OpenTruncating(path, envFails) ==
    IF ~IsDir(Parent(path)) \/ path = <<>> \/ IsDir(path) THEN "oserror"
    ELSE IF envFails THEN "oserror"
    ELSE "ok"

\* open(path, "x"): O_CREAT | O_EXCL, one system call.  "exists" is
\* FileExistsError, "oserror" any other OSError (a missing parent directory,
\* or a failure of the environment), "ok" the creation.
OpenExclusive(path, envFails) ==
    IF ~IsDir(Parent(path)) \/ path = <<>> THEN "oserror"
    ELSE IF IsFile(path) \/ IsDir(path) THEN "exists"
    ELSE IF envFails THEN "oserror"
    ELSE "ok"

\* The files after an empty file has been created at path.
WithFile(fls, path, content) ==
    [q \in DOMAIN fls \cup {path} |-> IF q = path THEN content ELSE fls[q]]

WithoutFile(fls, path) == [q \in DOMAIN fls \ {path} |-> fls[q]]

\* The content of a file the wrapper creates: nothing is written to it.
Empty == "empty"

(***************************************************************************)
(* Recurring helper: handle_cron (lines 150-193)                           *)
(***************************************************************************)
\* cron_regex = ^(\S+\s+){4}\S+$ matched against schedule.strip(): exactly
\* five runs of non-whitespace, nothing before the first or after the last.
CronFieldCount == 5

\* The expression without its anchors: five fields or more.
cron_regex_search(s) == Len(Fields(Strip(s))) >= CronFieldCount

cron_regex_match(s) ==
    /\ s # <<>>
    /\ ~IsSpace(s[1])
    /\ ~IsSpace(s[Len(s)])
    /\ Len(Fields(s)) = CronFieldCount

ScheduleWeekly == <<"0", " ", "9", " ", "*", " ", "*", " ", "1">>
ScheduleStep == <<"*", "/", "5", " ", "*", " ", "*", " ", "*", " ", "*">>

\* Lines that may be typed at the schedule prompt.
CronLines ==
    { ScheduleWeekly,
      <<" ">> \o ScheduleWeekly \o <<" ">>,
      <<"0", " ", " ", "9", "\t", "*", " ", "*", " ", "1">>,
      ScheduleStep,
      <<"0", " ", "9", " ", "*", " ", "*">>,
      <<"0", " ", "9", " ", "*", " ", "*", " ", "1", " ", "x">>,
      <<>> }

\* filename = f"{value} {task_title}" (lines 179, 244)
MarkerName(value, task_title) == value \o <<" ">> \o task_title

CronLine ==
    /\ pc = "cron_prompt"
    /\ prompts < MaxPrompts
    /\ \E line \in CronLines :
        /\ out' = Append(out, Ev("prompt", "Enter cron schedule", 0, <<>>))
        /\ entered' = Line(line)
        /\ prompts' = prompts + 1
        /\ IF cron_regex_match(Strip(line))
           THEN /\ schedule' = Strip(line)
                /\ err' = print_verbose(err, "Creating cron task file")
                /\ pc' = "cron_create"
           ELSE /\ err' = print_err(err, "Invalid cron string format.")
                /\ UNCHANGED <<schedule, pc>>
    /\ UNCHANGED <<hist, run, wren_path, on_path, resolver, picker, VERBOSE, QUIET, exitCode, calls, ops, hid, fs, ioErr>>

\* EOFError / KeyboardInterrupt at the prompt (lines 175-177)
CronAbort ==
    /\ pc = "cron_prompt"
    /\ out' = Append(out, Ev("prompt", "Enter cron schedule", 0, <<>>))
    /\ \E how \in InputEnds : entered' = how
    /\ err' = print_err(err, "Aborted by user.")
    /\ Exit(1)
    /\ UNCHANGED <<hist, run, wren_path, on_path, resolver, picker, VERBOSE, QUIET, calls, ops, hid, prompts, fs, schedule,
                   ioErr>>

\* Lines 183-193 and 248-258: create the marker exclusively and exit.
\* The report of lines 186 / 251 is written inside the try block: when the
\* write to stdout raises an OSError (a closed pipe, a full device), the
\* handler of lines 191 / 256 takes it for a failed creation.
CreateMarker(what) ==
    \E envFails \in BOOLEAN, printFails \in BOOLEAN :
        LET path == PathOf(MarkerName(schedule, title))
            res == OpenExclusive(path, envFails)
        IN  /\ envFails => OpenExclusive(path, FALSE) = "ok"
            /\ printFails => (res = "ok" /\ ~QUIET)
            /\ ops' = Append(ops, "open_x")
            /\ CASE res = "ok" /\ ~printFails ->
                      /\ files' = WithFile(files, path, Empty)
                      /\ creations' = Append(creations, path)
                      /\ out' = print_quiet(out, what, 0, MarkerName(schedule, title))
                      /\ Exit(0)
                      /\ UNCHANGED <<err, ioErr>>
                 [] res = "ok" /\ printFails ->
                      /\ files' = WithFile(files, path, Empty)
                      /\ creations' = Append(creations, path)
                      /\ err' = print_err(err, "Could not create task file")
                      /\ ioErr' = TRUE
                      /\ Exit(1)
                      /\ UNCHANGED out
                 [] res = "exists" ->
                      /\ err' = print_err(err, "Task file already exists")
                      /\ Exit(1)
                      /\ UNCHANGED <<files, creations, out, ioErr>>
                 [] res = "oserror" ->
                      /\ err' = print_err(err, "Could not create task file")
                      /\ ioErr' = (ioErr \/ envFails)
                      /\ Exit(1)
                      /\ UNCHANGED <<files, creations, out>>

CronCreate ==
    /\ pc = "cron_create"
    /\ CreateMarker("Created repeating task")
    /\ UNCHANGED <<hist, run, env, VERBOSE, QUIET, calls, hid, prompts, notes, dirs, schedule>>

(***************************************************************************)
(* Future helper: handle_future (lines 196-258)                            *)
(***************************************************************************)
\* datetime.datetime.strptime(s, "%Y-%m-%d") succeeds: the directives match
\* \d\d\d\d, 1[0-2]|0[1-9]|[1-9] and 3[01]|[12]\d|0[1-9]|[1-9]| [1-9], the
\* whole string is consumed, and the values make a date.
YearText(y) == Len(y) = 4 /\ AllDigits(y)

MonthText(m) ==
    /\ AllDigits(m)
    /\ \/ Len(m) = 2 /\ DigitsVal(m, 0) \in 1..12
       \/ Len(m) = 1 /\ DigitsVal(m, 0) \in 1..9

DayText(d) ==
    \/ AllDigits(d) /\ Len(d) = 2 /\ DigitsVal(d, 0) \in 1..31
    \/ AllDigits(d) /\ Len(d) = 1 /\ DigitsVal(d, 0) \in 1..9
    \/ Len(d) = 2 /\ d[1] = " " /\ IsDigit(d[2]) /\ DigitVal(d[2]) \in 1..9

IsLeap(y) == (y % 4 = 0 /\ y % 100 # 0) \/ y % 400 = 0

DaysInMonth(y, m) ==
    IF m = 2 THEN (IF IsLeap(y) THEN 29 ELSE 28)
    ELSE IF m \in {4, 6, 9, 11} THEN 30 ELSE 31

strptime_ok(s) ==
    LET parts == Split(s, "-") IN
    /\ Len(parts) = 3
    /\ YearText(parts[1]) /\ MonthText(parts[2]) /\ DayText(parts[3])
    /\ DigitsVal(parts[1], 0) >= 1
    /\ DigitsVal(Strip(parts[3]), 0)
           <= DaysInMonth(DigitsVal(parts[1], 0), DigitsVal(parts[2], 0))

DateJan15 == <<"2", "0", "2", "6", "-", "0", "1", "-", "1", "5">>

\* Lines that may be typed at the date prompt.
DateLines ==
    { DateJan15,
      <<"2", "0", "2", "6", "-", "1", "-", "5">>,
      <<"2", "0", "2", "6", "-", "0", "2", "-", "3", "0">>,
      <<"2", "0", "2", "4", "-", "0", "2", "-", "2", "9">>,
      <<"1", "5", "-", "0", "1", "-", "2", "0", "2", "6">>,
      DateJan15 \o <<" ">>,
      <<>> }

\* What the picker may print before it returns.
ZenityStdouts == { DateJan15 \o <<"\n">>, <<>> }

\* How the launch of the picker may end: it ran and returned, the
\* executable was not found (FileNotFoundError), or the spawn failed
\* otherwise (another OSError, e.g. PermissionError).
ZenityLaunch == {"returned", "not_found", "spawn_error"}

\* Line 199: use_zenity = shutil.which("zenity") and os.environ.get("DISPLAY")
FutureStart ==
    /\ pc = "future"
    /\ ops' = Append(ops, "which_zenity")
    /\ \E use_zenity \in BOOLEAN :
        IF use_zenity
        THEN /\ err' = print_verbose(err, "Using zenity")
             /\ pc' = "zenity"
        ELSE /\ err' = print_verbose(err, "Using CLI prompt")
             /\ pc' = "date_prompt"
    /\ UNCHANGED <<hist, run, env, VERBOSE, QUIET, exitCode, calls, out, hid, prompts, fs, schedule,
                   ioErr>>

\* Exit codes of the picker: a date was chosen, the dialog was cancelled,
\* the dialog timed out.
ZenityReturncodes == {0, 1, 5}

NoPicker == [launch |-> "not run", returncode |-> 0]

\* Only a cancelled dialog counts as declined.
DeclinedOnCancelOnly(returncode) == returncode = 1

\* Lines 217-221: every exit code but 0 is a declined selection.
Declined(returncode) == returncode # 0

\* Lines 203-224 and 240-242: the picker.
Zenity ==
    /\ pc = "zenity"
    /\ \E launch \in ZenityLaunch, rc \in ZenityReturncodes, stdout \in ZenityStdouts :
        /\ picker' = [launch |-> launch, returncode |-> rc]
        /\ CASE launch = "not_found" ->
               /\ rc = 0 /\ stdout = <<>>
               /\ err' = print_verbose(print_verbose(err, "Zenity call failed"),
                                       "Using CLI prompt")
               /\ pc' = "date_prompt"
               /\ UNCHANGED <<out, schedule, exitCode>>
          [] launch = "spawn_error" ->
               /\ rc = 0 /\ stdout = <<>>
               /\ err' = print_err(err, "Traceback")
               /\ Fault
               /\ UNCHANGED <<out, schedule>>
          [] launch = "returned" /\ Declined(rc) ->
               /\ out' = print_quiet(out, "Date selection cancelled.", 0, <<>>)
               /\ Exit(1)
               /\ UNCHANGED <<err, schedule>>
          [] launch = "returned" /\ ~Declined(rc) /\ Strip(stdout) = <<>> ->
               /\ err' = print_err(err, "Could not determine date.")
               /\ Exit(1)
               /\ UNCHANGED <<out, schedule>>
          [] launch = "returned" /\ ~Declined(rc) /\ Strip(stdout) # <<>> ->
               /\ schedule' = Strip(stdout)
               /\ err' = print_verbose(err, "Creating future task file")
               /\ pc' = "future_create"
               /\ UNCHANGED <<out, exitCode>>
    /\ UNCHANGED <<hist, run, wren_path, on_path, resolver, entered, VERBOSE, QUIET, calls, ops,
                   hid, prompts, fs, ioErr>>

\* One line read at the date prompt (lines 228-235).
DateLine ==
    /\ pc = "date_prompt"
    /\ prompts < MaxPrompts
    /\ \E line \in DateLines :
        /\ out' = Append(out, Ev("prompt", "Enter date", 0, <<>>))
        /\ entered' = Line(line)
        /\ prompts' = prompts + 1
        /\ IF strptime_ok(line)
           THEN /\ schedule' = line
                /\ err' = print_verbose(err, "Creating future task file")
                /\ pc' = "future_create"
           ELSE /\ err' = print_err(err, "Invalid date format.")
                /\ UNCHANGED <<schedule, pc>>
    /\ UNCHANGED <<hist, run, wren_path, on_path, resolver, picker, VERBOSE, QUIET, exitCode, calls, ops, hid, fs, ioErr>>

\* EOFError / KeyboardInterrupt at the date prompt (lines 236-238)
DateAbort ==
    /\ pc = "date_prompt"
    /\ out' = Append(out, Ev("prompt", "Enter date", 0, <<>>))
    /\ \E how \in InputEnds : entered' = how
    /\ err' = print_err(err, "Aborted by user.")
    /\ Exit(1)
    /\ UNCHANGED <<hist, run, wren_path, on_path, resolver, picker, VERBOSE, QUIET, calls, ops, hid, prompts, fs, schedule,
                   ioErr>>

FutureCreate ==
    /\ pc = "future_create"
    /\ CreateMarker("Created future task")
    /\ UNCHANGED <<hist, run, env, VERBOSE, QUIET, calls, hid, prompts, notes, dirs, schedule>>

(***************************************************************************)
(* Exact done: handle_exact_done (lines 261-291)                           *)
(***************************************************************************)
Done == <<"d", "o", "n", "e">>

\* Lines 263-268: the task must be a regular file named exactly task_title.
ExactCheck ==
    /\ pc = "exact"
    /\ ops' = Append(ops, "is_file")
    /\ IF IsFile(PathOf(title))
       THEN /\ err' = print_verbose(err, "Attempting to mark exact task as done")
            /\ pc' = "exact_move"
            /\ UNCHANGED exitCode
       ELSE /\ err' = print_err(print_verbose(err, "Attempting to mark exact task as done"),
                                "Task not found with exact name")
            /\ Exit(1)
    /\ UNCHANGED <<hist, run, env, VERBOSE, QUIET, calls, out, hid, prompts, fs, schedule, ioErr>>

\* shutil.move(src, dst): the place the file is moved to.  When dst is a
\* directory the file goes inside it, under the source's last part.
MoveTarget(src, dst, ds) == IF dst \in ds THEN Append(dst, src[Len(src)]) ELSE dst

\* shutil.move(src, dst) with the directories ds: "exists" when dst is a
\* directory that already holds the name (shutil.Error), "oserror" when
\* the target's directory is missing (os.rename and the copy both fail),
\* else "ok": os.rename replaces a regular file at the target.
MoveResult(src, dst, ds) ==
    LET target == MoveTarget(src, dst, ds) IN
    IF dst \in ds /\ (target \in ds \/ target \in DOMAIN files) THEN "exists"
    ELSE IF Parent(target) \notin ds THEN "oserror"
    ELSE "ok"

\* Lines 270-291: ensure the done directory, move the file, exit.
ExactMove ==
    /\ pc = "exact_move"
    /\ \E envFails \in {"none", "mkdir", "move", "print"} :
        LET src == PathOf(title)
            done_dir == <<Done>>
            dest == <<Done>> \o PathOf(title)
            ds == dirs \cup {done_dir}
            res == MoveResult(src, dest, ds)
        IN  CASE done_dir \in DOMAIN files \/ envFails = "mkdir" ->
                   \* mkdir raises FileExistsError (done is a regular
                   \* file) or another OSError
                   /\ envFails # "move"
                   /\ done_dir \in DOMAIN files => envFails = "none"
                   /\ ops' = Append(ops, "mkdir_done")
                   /\ err' = print_err(err, "Could not create 'done' directory")
                   /\ ioErr' = (ioErr \/ envFails = "mkdir")
                   /\ Exit(1)
                   /\ UNCHANGED <<dirs, files, out>>
              [] done_dir \notin DOMAIN files /\ envFails # "mkdir"
                 /\ (res # "ok" \/ envFails = "move") ->
                   /\ res # "ok" => envFails = "none"
                   /\ ops' = ops \o <<"mkdir_done", "move">>
                   /\ dirs' = ds
                   /\ err' = print_err(print_verbose(err, "Ensured 'done' directory exists"),
                                       "Could not move task file")
                   /\ ioErr' = (ioErr \/ envFails = "move")
                   /\ Exit(1)
                   /\ UNCHANGED <<files, out>>
              [] done_dir \notin DOMAIN files /\ envFails = "none" /\ res = "ok" ->
                   /\ ops' = ops \o <<"mkdir_done", "move">>
                   /\ dirs' = ds
                   /\ files' = WithFile(WithoutFile(files, src), MoveTarget(src, dest, ds),
                                        files[src])
                   /\ err' = print_verbose(err, "Ensured 'done' directory exists")
                   /\ out' = print_quiet(out, "Marked done", 0, title)
                   /\ Exit(0)
                   /\ UNCHANGED ioErr
              [] done_dir \notin DOMAIN files /\ envFails = "print" /\ res = "ok" ->
                   \* the report of line 284 raises an OSError inside the
                   \* try block of the move
                   /\ ~QUIET
                   /\ ops' = ops \o <<"mkdir_done", "move">>
                   /\ dirs' = ds
                   /\ files' = WithFile(WithoutFile(files, src), MoveTarget(src, dest, ds),
                                        files[src])
                   /\ err' = print_err(print_verbose(err, "Ensured 'done' directory exists"),
                                       "Could not move task file")
                   /\ ioErr' = TRUE
                   /\ Exit(1)
                   /\ UNCHANGED out
    /\ UNCHANGED <<hist, run, env, VERBOSE, QUIET, calls, hid, prompts, notes, creations,
                   schedule>>

(***************************************************************************)
(* Other actors on the notes directory                                     *)
(***************************************************************************)
\* The marker names the invocations of this model may contend for.
ContendedNames ==
    { MarkerName(ScheduleWeekly, TitleT), MarkerName(DateJan15, TitleT) }

\* A second wrapper invocation that has accepted its value and is at the
\* same creation step (lines 183-193 / 248-258), for the name rival.name.
RivalCreate ==
    /\ rival.pc = "create"
    /\ \E envFails \in BOOLEAN :
        LET path == PathOf(rival.name)
            res == OpenExclusive(path, envFails)
        IN  /\ envFails => OpenExclusive(path, FALSE) = "ok"
            /\ IF res = "ok"
               THEN /\ files' = WithFile(files, path, Empty)
                    /\ creations' = Append(creations, path)
                    /\ rival' = [rival EXCEPT !.pc = "exit", !.exitCode = <<0>>]
               ELSE /\ rival' = [rival EXCEPT !.pc = "exit", !.exitCode = <<1>>,
                                              !.found = (res = "exists")]
                    /\ UNCHANGED <<files, creations>>
    /\ UNCHANGED <<run, env, VERBOSE, QUIET, pc, exitCode, calls, out, err, ops, hid,
                   prompts,
                   notes, dirs, schedule, ioErr, runNo, prev>>

\* Another process (the backend, an editor) creates a task file of a
\* contended name that does not exist yet.
OtherCreate ==
    /\ notes = "dir"
    /\ \E name \in ContendedNames :
        /\ ~IsFile(PathOf(name)) /\ ~IsDir(PathOf(name))
        /\ files' = WithFile(files, PathOf(name), "written by another process")
        /\ creations' = Append(creations, PathOf(name))
    /\ UNCHANGED <<run, env, VERBOSE, QUIET, pc, exitCode, calls, out, err, ops, hid,
                   prompts,
                   notes, dirs, schedule, ioErr, runNo, prev, rival>>

(***************************************************************************)
(* Invocations                                                             *)
(***************************************************************************)
\* The invocations after the first.
MaxReruns == 1

NoRival == [pc |-> "idle", name |-> <<>>, exitCode |-> <<>>, found |-> FALSE]

NoPrev == [exitCode |-> <<>>, schedule |-> <<>>, files |-> <<>>, created |-> FALSE]

\* The same command line is run again on the notes directory as the
\* invocation before left it (a command that reached the notes directory).
Rerun ==
    /\ pc = "exit"
    /\ runNo <= MaxReruns
    /\ given \cap WrapperCommands # {}
    /\ Len(ops) > 0 /\ ops[Len(ops)] \in {"open_x", "move"}
    /\ runNo' = runNo + 1
    /\ prev' = [exitCode |-> exitCode, schedule |-> schedule, files |-> files,
                created |-> (ops[Len(ops)] = "open_x" /\ exitCode = <<0>>)]
    /\ pc' = "parse"
    /\ exitCode' = <<>>
    /\ VERBOSE' = FALSE /\ QUIET' = FALSE
    /\ calls' = <<>> /\ out' = <<>> /\ err' = <<>> /\ ops' = <<>>
    /\ prompts' = 0
    /\ schedule' = <<>>
    /\ ioErr' = FALSE
    /\ wren_path' = "unset"
    /\ config' = NoConfig /\ notes_dir' = <<>>
    /\ picker' = NoPicker /\ entered' = NoInput
    /\ UNCHANGED <<run, hid, fs, rival, on_path>>

\* run_on_interval and the parser check have not been started.
NoRoi == [pc |-> "idle"]
NoParse == [pc |-> "idle"]

\* The wrapper is not running: its state stays as it is here.
WrapperIdle ==
    /\ given = {} /\ title = TitleT /\ remaining_args = <<>>
    /\ VERBOSE = FALSE /\ QUIET = FALSE
    /\ pc = "parse" /\ exitCode = <<>>
    /\ calls = <<>> /\ out = <<>> /\ err = <<>> /\ ops = <<>>
    /\ pattern = <<>> /\ candidates = <<>> /\ final_args = <<>>
    /\ list_stdout = <<>> /\ choice = 0
    /\ wren_path = "unset" /\ on_path = FALSE
    /\ config = NoConfig /\ notes_dir = <<>>
    /\ picker = NoPicker /\ entered = NoInput
    /\ prompts = 0 /\ schedule = <<>> /\ ioErr = FALSE
    /\ notes = "absent" /\ dirs = {} /\ files = <<>> /\ creations = <<>>
    /\ runNo = 1 /\ prev = NoPrev /\ rival = NoRival

(***************************************************************************)
(* run_on_interval.py: main (lines 38-88)                                  *)
(***************************************************************************)
\* The interval and offset arguments as typed, the commands, the days of
\* the year the program may be run on.
IntervalArgs == { <<"1">>, <<"2">>, <<"7">>, <<"0">>, <<"x">> }
OffsetArgs == { <<"0">>, <<"1">>, <<"3">>, <<"9">>, <<"-", "1">> }
Commands == { <<>>, <<"true">>, <<"sh", "-c", "exit 3">> }
Days == {1, 2, 9, 10, 365, 366}

\* positive_int(value) returns (lines 14-19): int() succeeds and gives >= 1.
positive_int(value) == IntOk(value) /\ IntVal(value) >= 1

\* non_negative_int(value) returns (lines 22-27)
non_negative_int(value) == IntOk(value) /\ IntVal(value) >= 0

\* Line 70: (day_of_year - args.offset) % args.interval == 0
on_schedule(day_of_year, offset, interval) == (day_of_year - offset) % interval = 0

\* Lines 63-66: parse_args with the two argument types, and the check of
\* the command; each failure ends in parser.error, exit status 2.
RoiParse ==
    /\ roi.pc = "parse"
    /\ IF /\ positive_int(roi.interval_arg)
          /\ non_negative_int(roi.offset_arg)
          /\ roi.command # <<>>
       THEN roi' = [roi EXCEPT !.pc = "gate",
                               !.interval = IntVal(roi.interval_arg),
                               !.offset = IntVal(roi.offset_arg)]
       ELSE roi' = [roi EXCEPT !.pc = "exit", !.exitCode = <<2>>,
                               !.err = Append(@, "usage error")]
    /\ UNCHANGED <<wrapper, parsed>>

\* Lines 68-88 up to the start of the command.
RoiGate ==
    /\ roi.pc = "gate"
    /\ IF on_schedule(roi.day_of_year, roi.offset, roi.interval)
       THEN roi' = [roi EXCEPT !.pc = "run",
                               !.out = IF roi.verbose THEN Append(@, "Condition met") ELSE @]
       ELSE roi' = [roi EXCEPT !.pc = "exit", !.exitCode = <<0>>,
                               !.out = IF roi.verbose
                                       THEN @ \o <<"Condition not met", "Next execution",
                                                    "Not executing command.">>
                                       ELSE @]
    /\ UNCHANGED <<wrapper, parsed>>

\* Lines 76-77: subprocess.run(args.command, check=False) returns the
\* command's exit code, or raises because the command cannot be started
\* (an OSError nothing catches: traceback, exit status 1).
RoiRun ==
    /\ roi.pc = "run"
    /\ \/ \E rc \in Returncodes :
             roi' = [roi EXCEPT !.pc = "exit", !.exitCode = <<rc>>,
                                !.runs = Append(@, [command |-> roi.command,
                                                    started |-> TRUE, returncode |-> rc])]
       \/ roi' = [roi EXCEPT !.pc = "fault", !.exitCode = <<1>>,
                             !.err = Append(@, "Traceback"),
                             !.runs = Append(@, [command |-> roi.command,
                                                 started |-> FALSE, returncode |-> 0])]
    /\ UNCHANGED <<wrapper, parsed>>

InitInterval ==
    /\ WrapperIdle
    /\ parsed = NoParse
    /\ \E v \in BOOLEAN, i \in IntervalArgs, o \in OffsetArgs, c \in Commands, d \in Days :
          roi = [pc |-> "parse", verbose |-> v, interval_arg |-> i, offset_arg |-> o,
                 command |-> c, day_of_year |-> d, interval |-> 0, offset |-> 0,
                 runs |-> <<>>, out |-> <<>>, err |-> <<>>, exitCode |-> <<>>]

NextInterval == RoiParse \/ RoiGate \/ RoiRun

SpecInterval == InitInterval /\ [][NextInterval]_vars

(***************************************************************************)
(* run_on_interval.py started once a day, day after day                    *)
(***************************************************************************)
\* The number of days in the year the runs start in; the days of the year
\* the first run may fall on; the number of days followed.
YearLengths == {365, 366}
DailyStartDays == 358..366
MaxDays == 16

DailyIntervalArgs == { <<"1">>, <<"2">>, <<"7">> }
DailyOffsetArgs == { <<"0">>, <<"1">>, <<"3">> }

\* tm_yday of the day after day_of_year (line 68 on the next day's run):
\* the counter starts again at 1 after the last day of the year.
NextDayOfYear(day_of_year, year_length) ==
    IF day_of_year >= year_length THEN 1 ELSE day_of_year + 1

InitDaily ==
    /\ WrapperIdle
    /\ parsed = NoParse
    /\ \E i \in DailyIntervalArgs, o \in DailyOffsetArgs, y \in YearLengths,
          d \in DailyStartDays :
          /\ d <= y
          /\ roi = [pc |-> "parse", verbose |-> FALSE, interval_arg |-> i,
                    offset_arg |-> o, command |-> <<"true">>, day_of_year |-> d,
                    interval |-> 0, offset |-> 0, runs |-> <<>>, out |-> <<>>,
                    err |-> <<>>, exitCode |-> <<>>,
                    year_length |-> y, elapsed |-> 0, executed |-> <<>>]

\* The process has ended; the next day the same command line is started
\* again.  executed lists the days (counted from the first run) on which
\* main reached subprocess.run.
NextDay ==
    /\ roi.pc \in {"exit", "fault"}
    /\ roi.elapsed < MaxDays
    /\ roi' = [roi EXCEPT !.pc = "parse",
                          !.day_of_year = NextDayOfYear(roi.day_of_year, roi.year_length),
                          !.elapsed = @ + 1,
                          !.executed = IF roi.runs # <<>> THEN Append(@, roi.elapsed) ELSE @,
                          !.interval = 0, !.offset = 0,
                          !.runs = <<>>, !.out = <<>>, !.err = <<>>, !.exitCode = <<>>]
    /\ UNCHANGED <<wrapper, parsed>>

NextDaily == RoiParse \/ RoiGate \/ RoiRun \/ NextDay

SpecDaily == InitDaily /\ [][NextDaily]_vars

(***************************************************************************)
(* The candidate parser on its own (lines 105-111)                         *)
(***************************************************************************)
\* Lines the backend may print: empty, marked, unmarked, padded, an error
\* line, a marked line that reads like one, a marker with two blanks, a
\* bare dash, a marker with nothing behind it.
LinePool ==
    { <<>>,
      <<"-", " ", "a">>,
      <<"a">>,
      <<" ", " ", "-", " ", "b", " ">>,
      <<"E", "r", "r", "o", "r", " ", "-", " ", "x">>,
      <<"-", " ", "E", "r", "r", "o", "r", " ", "-">>,
      <<"-", " ", " ", "a">>,
      <<"-">>,
      <<"-", " ">> }

\* The largest number of lines in a listing output.
MaxLines == 3

\* "\n".join(ls)
RECURSIVE JoinLines(_)
JoinLines(ls) ==
    IF Len(ls) = 1 THEN ls[1] ELSE ls[1] \o <<"\n">> \o JoinLines(Tail(ls))

ParserInputs ==
    {<<>>} \cup { JoinLines(ls) : ls \in UNION { [1..n -> LinePool] : n \in 1..MaxLines } }

InitParser ==
    /\ WrapperIdle
    /\ roi = NoRoi
    /\ \E stdout \in ParserInputs :
          parsed = [pc |-> "start", stdout |-> stdout, candidates |-> <<>>]

\* candidates = [] and lines 105-111
Parse ==
    /\ parsed.pc = "start"
    /\ parsed' = [parsed EXCEPT !.pc = "done",
                                !.candidates = ParseCandidates(parsed.stdout)]
    /\ UNCHANGED <<wrapper, roi>>

NextParser == Parse

SpecParser == InitParser /\ [][NextParser]_vars

\* The notes directories an invocation may find.
FsAbsent == [notes |-> "absent", dirs |-> {}, files |-> <<>>]
FsEmpty == [notes |-> "dir", dirs |-> {}, files |-> <<>>]
FsTasks ==
    [notes |-> "dir", dirs |-> {<<<<"a">>>>},
     files |-> (<<TitleT>> :> "task T") @@ (<<<<"a">>, TitleT>> :> "task a/T")
               @@ (PathOf(MarkerName(ScheduleWeekly, TitleT)) :> "weekly T")
               @@ (PathOf(MarkerName(DateJan15, TitleT)) :> "dated T")]
FsDone ==
    [notes |-> "dir", dirs |-> {<<Done>>},
     files |-> (<<TitleT>> :> "task T") @@ (<<Done, TitleT>> :> "done T")]
FsDoneIsFile ==
    [notes |-> "dir", dirs |-> {},
     files |-> (<<TitleT>> :> "task T") @@ (<<Done>> :> "a file named done")]
FsNotesIsFile == [notes |-> "file", dirs |-> {}, files |-> <<>>]
FsNested ==
    [notes |-> "dir", dirs |-> {<<<<"a">>>>, <<Done>>, <<Done, <<"a">>>>},
     files |-> (<<<<"a">>, TitleT>> :> "task a/T")]

InitialFs == {FsAbsent, FsEmpty, FsTasks, FsDone, FsDoneIsFile, FsNotesIsFile, FsNested}

InitCommon ==
    /\ VERBOSE = FALSE /\ QUIET = FALSE
    /\ pc = "parse" /\ exitCode = <<>>
    /\ calls = <<>> /\ out = <<>> /\ err = <<>> /\ ops = <<>>
    /\ pattern = <<>> /\ candidates = <<>> /\ final_args = <<>>
    /\ list_stdout = <<>> /\ choice = 0
    /\ wren_path = "unset"
    /\ on_path \in BOOLEAN
    /\ config = NoConfig /\ notes_dir = <<>>
    /\ picker = NoPicker /\ entered = NoInput
    /\ roi = NoRoi /\ parsed = NoParse
    /\ prompts = 0
    /\ schedule = <<>>
    /\ ioErr = FALSE
    /\ creations = <<>>
    /\ runNo = 1
    /\ prev = NoPrev
    /\ \E f \in InitialFs : notes = f.notes /\ dirs = f.dirs /\ files = f.files

Init ==
    /\ given \in SUBSET Options
    /\ title \in Titles
    /\ given \cap WrapperCommands = {} => title = TitleT
    /\ remaining_args \in RestLists
    /\ rival = NoRival
    /\ InitCommon

Next ==
    \/ ParseArgs \/ FindWren \/ Help \/ HelpPrint \/ MutexError \/ GetNotesDir \/ Dispatch
    \/ Proxy \/ HidList \/ HidProxy \/ HidSelectLine \/ HidSelectAbort \/ HidFinal
    \/ CronLine \/ CronAbort \/ CronCreate
    \/ FutureStart \/ Zenity \/ DateLine \/ DateAbort \/ FutureCreate
    \/ ExactCheck \/ ExactMove
    \/ Rerun

Spec == Init /\ [][Next]_vars

\* Two wrapper invocations and another process on one notes directory: the
\* first runs a creation helper, the second is at its creation step.
InitRace ==
    /\ given \in {{"cron"}, {"future"}, {"cron", "quiet"}, {"future", "verbose"}}
    /\ title = TitleT
    /\ remaining_args = <<>>
    /\ \E name \in ContendedNames :
        rival = [pc |-> "create", name |-> name, exitCode |-> <<>>, found |-> FALSE]
    /\ InitCommon

NextRace ==
    \/ ParseArgs \/ FindWren \/ GetNotesDir \/ Dispatch
    \/ CronLine \/ CronAbort \/ CronCreate
    \/ FutureStart \/ Zenity \/ DateLine \/ DateAbort \/ FutureCreate
    \/ RivalCreate \/ OtherCreate

SpecRace == InitRace /\ [][NextRace]_vars

(***************************************************************************)
(* Properties                                                              *)
(***************************************************************************)
Terminated == pc \in {"exit", "fault"}

\* The invocation has entered handle_interactive_done.
EnteredHid == pattern # <<>>

\* The candidate lines of a listing output: its lines, trimmed, that are
\* not empty and are no error line, in the order the backend printed them.
IsCandidateLine(line) == line # <<>> /\ ~StartsWith(line, ErrorSentinel)

CandidateLines(stdout) ==
    LET raw == Split(stdout, "\n")
    IN  SelectSeq([i \in 1..Len(raw) |-> Strip(raw[i])], IsCandidateLine)

IsPromptEvent(e) == e.ch = "prompt"
IsMenuItem(e) == e.msg = "menu item"

\* C1: in every run of the interactive disambiguator the backend is invoked
\* with the listing query exactly once (the first call, output captured)
\* and with the final action at most once; no call is made again after an
\* invalid selection, a quit or the end of input.
C1_ListingOnceFinalAtMostOnce ==
    /\ pc = "hid_list" => calls = <<>>
    /\ (EnteredHid /\ pc # "hid_list") =>
         /\ Len(calls) \in {1, 2}
         /\ calls[1].args = <<DashD, pattern>> /\ calls[1].capture
         /\ pc \in {"select", "hid_proxy", "hid_final"} => Len(calls) = 1
         /\ Len(calls) = 2 => /\ pc = "exit"
                              /\ ~calls[2].capture
                              /\ calls[2].args \in {remaining_args, final_args}

\* C1 witness: a run that read an invalid selection, then a valid one, and
\* made the final call.
C1_Witness ==
    /\ EnteredHid /\ pc = "exit" /\ Len(calls) = 2
    /\ prompts = 2 /\ final_args # <<>>

\* The menu expected on stdout for the listing output received.
ExpectedMenu ==
    LET lines == CandidateLines(list_stdout)
    IN  <<Ev("quiet", "Multiple tasks match", 0, pattern)>>
        \o [i \in 1..Len(lines) |-> Ev("quiet", "menu item", i, StripMarker(lines[i]))]

MenuPresented ==
    /\ Len(out) >= Len(ExpectedMenu)
    /\ SubSeq(out, 1, Len(ExpectedMenu)) = ExpectedMenu
    /\ \A i \in (Len(ExpectedMenu) + 1)..Len(out) : ~IsMenuItem(out[i])

ListedAtLeastTwo ==
    EnteredHid /\ pc # "hid_list" /\ Len(CandidateLines(list_stdout)) >= 2

\* C2 as stated: with N >= 2 candidate lines and any verbose/quiet setting,
\* the menu of exactly N options numbered 1..N, in emission order, is on
\* stdout before the first prompt.
C2_MenuWhateverFlags == ListedAtLeastTwo => MenuPresented

\* C2 as amended: with N >= 2 candidate lines the menu of exactly N options
\* numbered 1..N, in emission order, is on stdout before the first prompt
\* unless quiet mode is set; in quiet mode no menu line is written (only
\* the prompts reach stdout).
C2_MenuUnlessQuiet ==
    ListedAtLeastTwo =>
        /\ ~QUIET => MenuPresented
        /\ QUIET => \A i \in 1..Len(out) : IsPromptEvent(out[i])

\* C2 witness: a menu of three options is shown and the prompt is awaited.
C2_Witness ==
    /\ pc = "select" /\ ~QUIET /\ VERBOSE
    /\ Len(CandidateLines(list_stdout)) = 3 /\ MenuPresented

\* C3: with N >= 2 candidates, a selection k in 1..N leads to exactly one
\* further backend call, whose arguments are the original ones with the
\* first occurrence of the pattern replaced by the k-th candidate and all
\* other tokens unchanged and in place, and the wrapper exits with that
\* call's exit code.
C3_ValidSelection ==
    /\ pc = "select" => choice \notin 1..Len(candidates)
    /\ (EnteredHid /\ choice \in 1..Len(candidates) /\ Len(candidates) >= 2) =>
         /\ pc \in {"hid_final", "exit"}
         /\ Len(final_args) = Len(remaining_args)
         /\ \E j \in 1..Len(remaining_args) :
               /\ remaining_args[j] = pattern
               /\ \A i \in 1..(j - 1) : remaining_args[i] # pattern
               /\ final_args[j] = candidates[choice]
               /\ \A i \in 1..Len(remaining_args) :
                     i # j => final_args[i] = remaining_args[i]
         /\ pc = "hid_final" => Len(calls) = 1
         /\ pc = "exit" => /\ Len(calls) = 2
                           /\ calls[2].args = final_args
                           /\ exitCode = <<calls[2].returncode>>

\* C3 witness: option 2 was chosen where the pattern occurs twice in the
\* arguments, and the wrapper has exited with a non-zero backend code.
C3_Witness ==
    /\ pc = "exit" /\ choice = 2 /\ remaining_args = <<Foo, DashD, Foo>>
    /\ Len(calls) = 2 /\ exitCode = <<3>>

\* C4: with 0 or 1 candidate the disambiguator never prompts, re-issues the
\* original argument list exactly once, unchanged, and exits with that
\* call's exit code.
C4_ZeroOrOneCandidate ==
    (EnteredHid /\ pc # "hid_list" /\ Len(CandidateLines(list_stdout)) <= 1) =>
        /\ \A i \in 1..Len(out) : ~IsPromptEvent(out[i])
        /\ pc \in {"hid_proxy", "exit"}
        /\ pc = "hid_proxy" => Len(calls) = 1
        /\ pc = "exit" => /\ Len(calls) = 2
                          /\ calls[2].args = remaining_args
                          /\ ~calls[2].capture
                          /\ exitCode = <<calls[2].returncode>>

\* C4 witness: one candidate, the original command was re-issued and its
\* exit code 3 propagated.
C4_Witness ==
    /\ EnteredHid /\ pc = "exit" /\ Len(CandidateLines(list_stdout)) = 1
    /\ Len(calls) = 2 /\ exitCode = <<3>>

\* A mark-done flag immediately followed by a token that is no flag.
IsDoneFlag(tok) == tok \in {DashD, DashDone}

FlaggedPatterns(ra) ==
    { ra[i + 1] : i \in { k \in 1..(Len(ra) - 1) :
                            IsDoneFlag(ra[k]) /\ ~StartsWith(ra[k + 1], <<"-">>) } }

\* An invocation the wrapper proxies: no help, cron, future or exact flag
\* and no done-pattern in the residual arguments.
ProxiedInvocation ==
    /\ given \cap {"help", "cron", "future", "exact"} = {}
    /\ FlaggedPatterns(remaining_args) = {}

OneCallPropagated ==
    /\ Len(calls) = 1
    /\ calls[1].args = remaining_args
    /\ exitCode = <<calls[1].returncode>>

\* C5 as stated: every proxied invocation invokes the backend exactly once
\* with the residual arguments unchanged and ends with the backend's code.
C5_ProxyAlways == (ProxiedInvocation /\ Terminated) => OneCallPropagated

\* C5 as amended: a proxied invocation whose arguments parse, whose backend
\* is found and whose config resolver returns invokes the backend exactly
\* once with the residual arguments unchanged and exits with its code; a
\* proxied invocation that fails before that point invokes nothing and ends
\* with the wrapper's code 2 or 1.
C5_ProxyAfterFailFast ==
    ProxiedInvocation =>
        /\ ~Terminated => calls = <<>>
        /\ Terminated =>
             IF Contains(ops, "get_notes_dir returned")
             THEN pc = "exit" /\ OneCallPropagated
             ELSE calls = <<>> /\ exitCode \in {<<1>>, <<2>>}

\* C5 witness: a proxied invocation has ended with the backend's code 3.
C5_Witness ==
    /\ ProxiedInvocation /\ pc = "exit" /\ OneCallPropagated /\ exitCode = <<3>>
    /\ remaining_args = <<DashD, DashL>>

\* C6: if a mark-done flag (-d or --done) occurs in the residual arguments
\* immediately followed by a token that does not start with "-", control
\* passes to the interactive disambiguator with that token as the pattern;
\* in every other case the residual arguments are proxied unchanged.
C6_DoneRouting ==
    (given \cap WrapperCommands = {} /\ pc \in {"hid_list", "proxy"}) =>
        IF FlaggedPatterns(remaining_args) # {}
        THEN pc = "hid_list" /\ pattern \in FlaggedPatterns(remaining_args)
        ELSE pc = "proxy"

GivenCommands == given \cap {"cron", "future", "exact"}

\* C7 as stated: with two or more of cron, future, exact the wrapper exits
\* 1, and nothing has touched the backend or the filesystem before that,
\* not even the backend lookup, whatever other flags are present.
C7_MutexBeforeAnything ==
    Cardinality(GivenCommands) >= 2 =>
        /\ calls = <<>> /\ ops = <<>>
        /\ Terminated => exitCode = <<1>>

\* C7 as amended: with two or more of cron, future, exact, no help flag,
\* not -v together with -q, and the backend found, the wrapper exits 1; the
\* backend lookup is the only filesystem interaction before that exit: no
\* backend invocation, no config read, no directory or file creation.  (It
\* exits 2 when the backend is not found or -v meets -q, and with the help
\* flag it runs the backend's help once and exits 0.)
C7_MutexAfterLookupOnly ==
    Cardinality(GivenCommands) >= 2 =>
        /\ ops \in {<<>>, <<"which_wren">>}
        /\ creations = <<>>
        /\ "help" \notin given => calls = <<>>
        /\ Len(calls) <= 1
        /\ \A i \in 1..Len(calls) : calls[i].args = <<HelpArg>>
        /\ Terminated =>
             /\ pc = "exit"
             /\ exitCode = IF {"verbose", "quiet"} \subseteq given \/ wren_path = "none"
                           THEN <<2>>
                           ELSE IF "help" \in given THEN <<0>> ELSE <<1>>
             /\ ops = IF {"verbose", "quiet"} \subseteq given THEN <<>>
                      ELSE <<"which_wren">>

\* C7 witness: all three commands with quiet, exit 1 after the lookup alone.
C7_Witness ==
    /\ GivenCommands = WrapperCommands /\ "quiet" \in given /\ "help" \notin given
    /\ pc = "exit" /\ exitCode = <<1>> /\ ops = <<"which_wren">> /\ calls = <<>>

\* The marker a creation helper is about to create, and the place exact
\* done is about to move its task to.
MarkerPath == PathOf(MarkerName(schedule, title))
DonePath == <<Done>> \o PathOf(title)

\* C8: no wrapper operation replaces an existing file in its target
\* directory; a name collision there (a marker in the notes directory, a
\* completed task in the done subdirectory) ends the invocation with exit
\* code 1 and leaves the existing file as it was.
C8_NoSilentOverwrite ==
    [][ /\ \A p \in DOMAIN files : p \in DOMAIN files' => files'[p] = files[p]
        /\ (pc \in {"cron_create", "future_create"} /\ IsFile(MarkerPath) /\ pc' = "exit")
              => (exitCode' = <<1>> /\ files' = files)
        /\ (pc = "exact_move" /\ IsFile(DonePath) /\ pc' = "exit")
              => (exitCode' = <<1>> /\ files' = files) ]_vars

LastOp == IF ops = <<>> THEN "none" ELSE ops[Len(ops)]
LastErr == IF err = <<>> THEN <<"none", "none">> ELSE err[Len(err)]

\* C9: when invocations and other processes race to create the same marker
\* name, at most one creation of a name succeeds, every wrapper that finds
\* the name taken exits 1 with the already-exists error, and no existing
\* file is ever overwritten or truncated.
C9_ExclusiveCreate ==
    /\ [](\A i, j \in 1..Len(creations) : creations[i] = creations[j] => i = j)
    /\ []((pc = "exit" /\ LastOp = "open_x") =>
            IF exitCode = <<0>>
            THEN /\ files[MarkerPath] = Empty
                 /\ Len(SelectSeq(creations, LAMBDA c : c = MarkerPath)) = 1
                 /\ rival.name = MarkerName(schedule, title) => rival.exitCode # <<0>>
            ELSE /\ exitCode = <<1>>
                 /\ LastErr[2] = "Task file already exists" => IsFile(MarkerPath)
                 /\ (IsDir(Parent(MarkerPath)) /\ ~ioErr)
                       => LastErr[2] = "Task file already exists")
    /\ [](rival.pc = "exit" =>
            /\ rival.exitCode \in {<<0>>, <<1>>}
            /\ rival.found => IsFile(PathOf(rival.name)))
    /\ [][\A p \in DOMAIN files : p \in DOMAIN files' /\ files'[p] = files[p]]_vars

\* C9 witness: the second invocation created the marker first, and the
\* first one then exited 1 with the already-exists error, in a notes
\* directory that held nothing else.
C9_Witness ==
    /\ pc = "exit" /\ exitCode = <<1>> /\ LastErr[2] = "Task file already exists"
    /\ rival.exitCode = <<0>> /\ rival.name = MarkerName(schedule, title)
    /\ DOMAIN files = {MarkerPath} /\ files[MarkerPath] = Empty

\* C10: creating a recurring task with an accepted schedule S and title T
\* produces exactly one new file named "S T" in the notes directory and
\* exits 0; the same creation again exits 1 with the already-exists error,
\* creates no second file and leaves the first unchanged.
C10_RoundTrip ==
    [][ /\ ( /\ pc = "cron_create" /\ pc' = "exit"
             /\ notes = "dir" /\ <<MarkerName(schedule, title)>> \notin DOMAIN files
             /\ ~ioErr' )
           => /\ exitCode' = <<0>>
              /\ DOMAIN files' = DOMAIN files \cup {<<MarkerName(schedule, title)>>}
              /\ \A p \in DOMAIN files : files'[p] = files[p]
        /\ ( /\ pc = "cron_create" /\ pc' = "exit"
             /\ prev.created /\ prev.schedule = schedule )
           => /\ exitCode' = <<1>>
              /\ LastErr' = <<"error", "Task file already exists">>
              /\ files' = files ]_vars

\* Whether the invocation has made the filesystem interaction op.
Did(op) == \E i \in 1..Len(ops) : ops[i] = op

\* get_notes_dir has returned to main.
Returned == Did("get_notes_dir returned")

\* C11: for every configuration file that is missing, is not valid
\* structured data, is not an object, lacks the notes_dir key or has a
\* non-string notes_dir value, get_notes_dir terminates with exit code 2 and
\* creates no directory.
C11_BadConfigExitsTwo ==
    config.kind \in ConfigKinds \ {"ok"} =>
        /\ pc = "exit" /\ exitCode = <<2>>
        /\ ~Did("mkdir_notes") /\ ~Returned

\* A path is absolute when it starts at the root.
IsAbsolute(p) == p # <<>> /\ p[1] = "/"

\* C12: for every well-formed configuration whose notes directory does not
\* exist, get_notes_dir creates the directory and returns its resolved
\* absolute path, also when notes_dir is written as a relative path (the
\* environment not refusing the creation).
C12_CreatesAndReturnsAbsolute ==
    (config.kind = "ok" /\ Did("mkdir_notes") /\ ~ioErr) =>
        /\ notes = "dir"
        /\ Returned
        /\ IsAbsolute(notes_dir)

\* C13: whenever get_notes_dir returns normally the returned path is an
\* existing directory; if the directory cannot be created it exits with
\* code 1 and does not return.
C13_ReturnedIsDirectory ==
    /\ Returned => notes = "dir"
    /\ (Did("mkdir_notes") /\ notes # "dir") => ~Returned /\ pc = "exit" /\ exitCode = <<1>>

\* C14: if the backend executable is not on the search path, every
\* invocation, help included, exits with code 2, and before that exit there
\* is no backend call, no configuration read and no change of the notes
\* directory: the lookup is the only interaction.
C14_NotFoundExitsTwoFirst ==
    /\ [](~on_path =>
            /\ pc \in {"parse", "find_wren", "exit"}
            /\ pc = "exit" => exitCode = <<2>>
            /\ calls = <<>>
            /\ ops \in {<<>>, <<"which_wren">>}
            /\ config = NoConfig /\ notes_dir = <<>>)
    /\ [][~on_path => UNCHANGED <<notes, dirs, files, creations>>]_vars

\* C14 witness: help was asked for, the lookup failed, the wrapper exited 2.
C14_Witness ==
    /\ ~on_path /\ "help" \in given /\ ~({"verbose", "quiet"} \subseteq given)
    /\ pc = "exit" /\ exitCode = <<2>> /\ wren_path = "none" /\ ops = <<"which_wren">>

\* The wrapper's own help as written by lines 355-357.
OwnHelp ==
    << Ev("print", "wrapper help header", 0, <<>>), Ev("print", "parser help", 0, <<>>) >>

\* The help request has been served: the backend's help was run once, the
\* wrapper's help followed, exit 0, and nothing else was touched.
HelpServed ==
    /\ pc = "exit" /\ exitCode = <<0>>
    /\ Len(calls) = 1 /\ calls[1].args = <<HelpArg>> /\ ~calls[1].capture
    /\ out = OwnHelp
    /\ ops = <<"which_wren">> /\ config = NoConfig

VerboseWithQuiet == {"verbose", "quiet"} \subseteq given

\* C15 as stated: whenever the help flag is given and the backend is found,
\* the wrapper invokes the backend's help exactly once, then prints its own
\* help and exits 0, whatever the backend help's exit status and whatever
\* other wrapper flags or residual arguments are present; no configuration
\* read, no marker file created or moved, no other backend call.
C15_HelpWhateverFlags ==
    ("help" \in given /\ on_path /\ Terminated) => HelpServed

\* C15 as amended: whenever the help flag is given, -v and -q are not both
\* given and the backend is found, the wrapper invokes the backend's help
\* exactly once, then prints its own help and exits 0, whatever the backend
\* help's exit status and whatever other flags or residual arguments are
\* present; no configuration read, no change of the notes directory, no
\* other backend call.  With -v and -q both given the argument parser
\* rejects the command line: exit 2, no backend call, no help printed.
C15_HelpUnlessVerboseQuiet ==
    /\ []( ("help" \in given /\ on_path) =>
             IF VerboseWithQuiet
             THEN /\ pc \in {"parse", "exit"}
                  /\ calls = <<>> /\ out = <<>> /\ ops = <<>>
                  /\ pc = "exit" => exitCode = <<2>>
             ELSE /\ pc \in {"parse", "find_wren", "located", "help_print", "exit"}
                  /\ ops \in {<<>>, <<"which_wren">>} /\ config = NoConfig
                  /\ Len(calls) <= 1
                  /\ out # <<>> => Len(calls) = 1
                  /\ pc = "exit" => HelpServed )
    /\ [][("help" \in given /\ on_path) => UNCHANGED <<notes, dirs, files, creations>>]_vars

\* C15 witness: help together with two commands, quiet and residual
\* arguments; the backend's help returned 3 and the wrapper exited 0.
C15_Witness ==
    /\ {"help", "cron", "exact", "quiet"} \subseteq given /\ remaining_args # <<>>
    /\ HelpServed /\ calls[1].returncode = 3

\* The picker ran and returned a non-zero exit code.
PickerDeclined == picker.launch = "returned" /\ picker.returncode # 0

NoPromptShown == \A i \in 1..Len(out) : ~IsPromptEvent(out[i])

\* C16: in the future helper, when the graphical picker runs and returns a
\* non-zero exit code, the wrapper exits 1, no file is created in the notes
\* directory, and the text date prompt is never shown.
C16_PickerDeclinedExitsOne ==
    /\ [](PickerDeclined =>
            /\ pc = "exit" /\ exitCode = <<1>>
            /\ ~Did("open_x")
            /\ NoPromptShown /\ entered = NoInput)
    /\ [][PickerDeclined' => UNCHANGED <<notes, dirs, files, creations>>]_vars

\* C16 witness: the picker timed out (exit code 5) and the wrapper exited 1.
C16_Witness ==
    /\ given \cap WrapperCommands = {"future"}
    /\ picker = [launch |-> "returned", returncode |-> 5]
    /\ pc = "exit" /\ exitCode = <<1>> /\ NoPromptShown

\* C17: in the future helper, whenever the graphical picker is attempted and
\* cannot be launched at all, for every kind of launch-level failure, the
\* helper falls back to the text date prompt instead of terminating.
C17_LaunchFailureFallsBack ==
    picker.launch \in {"not_found", "spawn_error"} =>
        /\ pc \in {"date_prompt", "future_create", "exit"}
        /\ Terminated => entered # NoInput

\* A text strictly of the form YYYY-MM-DD that names a real calendar date.
StrictDate(s) ==
    /\ Len(s) = 10
    /\ s[5] = "-" /\ s[8] = "-"
    /\ \A i \in {1, 2, 3, 4, 6, 7, 9, 10} : IsDigit(s[i])
    /\ LET y == DigitsVal(SubSeq(s, 1, 4), 0)
           m == DigitsVal(SubSeq(s, 6, 7), 0)
           d == DigitsVal(SubSeq(s, 9, 10), 0)
       IN  y >= 1 /\ m \in 1..12 /\ d \in 1..DaysInMonth(y, m)

\* C18: in the future helper's text flow an input is accepted only if it is
\* strictly of the form YYYY-MM-DD and a real calendar date (and every such
\* input is accepted, as the date of the marker); every other input
\* re-prompts and creates no file.
C18_StrictDateOnly ==
    [][ (pc = "date_prompt" /\ prompts' = prompts + 1) =>
          /\ (pc' = "future_create") <=> StrictDate(entered'.text)
          /\ pc' = "future_create" => schedule' = entered'.text
          /\ pc' # "future_create" =>
                pc' = "date_prompt" /\ UNCHANGED <<notes, dirs, files, creations>> ]_vars

\* The positions at which a whitespace-separated field of s starts.
FieldStarts(s) ==
    { i \in 1..Len(s) : ~IsSpace(s[i]) /\ (i = 1 \/ IsSpace(s[i - 1])) }

FiveFields(s) == Cardinality(FieldStarts(s)) = 5

\* C19: the recurring helper accepts an entered schedule if and only if it
\* consists of exactly five whitespace-separated fields (surrounding
\* whitespace trimmed, field contents unchecked); any other entry
\* re-prompts, and no file is created before an entry has been accepted.
C19_FiveFieldsIff ==
    /\ [][ (pc = "cron_prompt" /\ prompts' = prompts + 1) =>
             /\ (pc' = "cron_create") <=> FiveFields(entered'.text)
             /\ pc' = "cron_create" => schedule' = Strip(entered'.text)
             /\ pc' # "cron_create" =>
                   pc' = "cron_prompt" /\ UNCHANGED <<notes, dirs, files, creations>> ]_vars
    /\ [][ (given \cap WrapperCommands = {"cron"} /\ files' # files) =>
             pc = "cron_create" /\ FiveFields(schedule) ]_vars

\* C19 witness: after a four-field entry was refused, an entry of five
\* fields with surrounding blanks was accepted, trimmed.
C19_Witness ==
    /\ pc = "cron_create" /\ prompts = 2
    /\ entered = Line(<<" ">> \o ScheduleWeekly \o <<" ">>)
    /\ schedule = ScheduleWeekly
    /\ err # <<>> /\ err[Len(err)] \in {<<"error", "Invalid cron string format.">>,
                                       <<"verbose", "Creating cron task file">>}
    /\ \E i \in 1..Len(err) : err[i] = <<"error", "Invalid cron string format.">>

\* The selection loop was left by the end of input, an interrupt or the
\* quit sentinel.
SelectionAborted ==
    /\ EnteredHid
    /\ \/ entered \in InputEnds
       \/ entered \in {Line(<<"q">>), Line(<<"Q">>)}

\* C20: in the disambiguator's selection loop, end-of-input, an interrupt or
\* the quit sentinel at the prompt (also after any number of invalid inputs)
\* ends the run with exit code 1 and without the final-action backend call.
C20_AbortExitsOneNoFinalCall ==
    SelectionAborted =>
        /\ pc = "exit" /\ exitCode = <<1>>
        /\ Len(calls) = 1 /\ calls[1].capture
        /\ final_args = <<>>

\* C20 witness: an invalid input, then the quit sentinel in upper case.
C20_Witness ==
    /\ SelectionAborted /\ entered = Line(<<"Q">>) /\ prompts = 1
    /\ pc = "exit" /\ exitCode = <<1>> /\ Len(calls) = 1

\* Where an invocation is while it is inside handle_cron or handle_future.
HelperPcs == {"cron_prompt", "cron_create", "future", "zenity", "date_prompt", "future_create"}

\* C21: whenever a task-creation helper (cron or future) ends with exit code
\* 1, for any cause, the files of the notes directory and their contents
\* are what they were when the helper started: no step of a helper other
\* than its successful end (exit 0) changes the notes directory.
C21_NoFileLeftOnFailure ==
    [][ (pc \in HelperPcs /\ (pc' # "exit" \/ exitCode' = <<1>>))
          => UNCHANGED <<notes, dirs, files>> ]_vars

\* C22: exact done with title T: if a regular file named exactly T exists in
\* the notes directory it is moved to the done subdirectory under the same
\* name (the subdirectory is created if missing), it no longer exists in
\* the notes directory, and the wrapper exits 0; if no such file exists the
\* wrapper exits 1 and the filesystem is unchanged.
C22_ExactDone ==
    [][ /\ (pc = "exact" /\ ~IsFile(PathOf(title)))
              => (pc' = "exit" /\ exitCode' = <<1>> /\ UNCHANGED <<notes, dirs, files>>)
        /\ (pc = "exact" /\ IsFile(PathOf(title)))
              => (pc' = "exact_move" /\ UNCHANGED <<notes, dirs, files>>)
        /\ pc = "exact_move"
              => /\ pc' = "exit" /\ exitCode' = <<0>>
                 /\ <<Done>> \in dirs'
                 /\ PathOf(title) \notin DOMAIN files'
                 /\ DonePath \in DOMAIN files'
                 /\ files'[DonePath] = files[PathOf(title)]
                 /\ \A p \in DOMAIN files \ {PathOf(title), DonePath} :
                        p \in DOMAIN files' /\ files'[p] = files[p] ]_vars

\* C23: giving verbose and quiet together is a usage error: the invocation
\* ends with exit code 1, reported before any side effect (no backend lookup
\* or call, no configuration read, no file change); no reachable state has
\* both verbose and quiet mode set.
C23_ConflictingFlagsExitOne ==
    /\ VerboseWithQuiet =>
          /\ Terminated => (pc = "exit" /\ exitCode = <<1>>)
          /\ calls = <<>> /\ ops = <<>> /\ config = NoConfig /\ wren_path = "unset"
    /\ ~(VERBOSE /\ QUIET)

\* C24: when quiet mode is set the wrapper writes nothing to its normal
\* output on any path (help header, menu, success and cancellation reports;
\* the prompts of input() aside), and verbose diagnostics are emitted only
\* when verbose mode is set and quiet mode is not.
C24_QuietWritesNothing ==
    /\ QUIET => \A i \in 1..Len(out) : IsPromptEvent(out[i])
    /\ \A i \in 1..Len(err) : err[i][1] = "verbose" => (VERBOSE /\ ~QUIET)

\* The arguments were accepted by the parser.
RoiAccepted == roi.pc # "parse" /\ roi.interval >= 1

RoiEnded == roi.pc \in {"exit", "fault"}

\* day_of_year - offset is a multiple of interval.
IsMultiple == \E k \in -400..400 : roi.day_of_year - roi.offset = k * roi.interval

\* C25 as stated: for every day_of_year, interval >= 1 and offset >= 0 with
\* a non-empty command, main executes the command exactly once if and only
\* if (day_of_year - offset) mod interval = 0 and then exits with the
\* command's exit code; otherwise it never starts the command and exits 0.
C25_GateWhateverCommand ==
    RoiAccepted =>
        /\ Len(roi.runs) <= 1
        /\ ~IsMultiple => roi.runs = <<>>
        /\ RoiEnded =>
             IF IsMultiple
             THEN /\ Len(roi.runs) = 1 /\ roi.runs[1].started
                  /\ roi.runs[1].command = roi.command
                  /\ roi.exitCode = <<roi.runs[1].returncode>>
             ELSE roi.runs = <<>> /\ roi.exitCode = <<0>>

\* The text is an integer, as int() reads it, between 1 and n.
InRangeInteger(text, n) == IntOk(text) /\ 1 <= IntVal(text) /\ IntVal(text) <= n

\* The line just read at the selection prompt is neither an in-range
\* integer nor the quit sentinel.
InvalidSelectionRead ==
    /\ pc = "select"
    /\ entered'.kind = "line"
    /\ ~(Lower(entered'.text) = <<"q">>)
    /\ ~InRangeInteger(entered'.text, Len(candidates))

\* C26: in the disambiguator's selection loop an input that is neither an
\* in-range integer nor the quit sentinel (text, empty, 0, negative, above
\* N) makes no backend call, leaves the candidates and the original
\* arguments unchanged and returns to the same prompt without a new query.
C26_InvalidInputReprompts ==
    [][ InvalidSelectionRead =>
          /\ pc' = "select"
          /\ UNCHANGED <<calls, candidates, remaining_args, pattern, list_stdout,
                         final_args, exitCode, fs>>
          /\ prompts' = prompts + 1 ]_vars

\* C26 witness: two inputs were refused (the last one is 0 or above N) and
\* the prompt is up again with the listing query as the only backend call.
C26_Witness ==
    /\ pc = "select" /\ prompts = 2
    /\ entered \in {Line(<<"0">>), Line(<<"4">>)}
    /\ Len(calls) = 1 /\ Len(candidates) > 1

\* Control is in one of the routes behind the two fail-fast steps: a
\* task-creation helper, the exact-done handler, the disambiguator, the
\* plain proxy, or the routing code between them.
RoutePcs ==
    HelperPcs \cup {"dispatch", "exact", "exact_move", "hid_list", "hid_proxy",
                    "select", "hid_final", "proxy"}

LocatorFailed == wren_path = "none"

\* The configuration was read and get_notes_dir did not return.
ResolverFailed == config # NoConfig /\ ~Returned

\* C27: whenever control is in a task-creation helper, the exact-done
\* handler, the disambiguator or the plain proxy, the backend lookup and
\* get_notes_dir have both succeeded before; if either has failed, no route
\* is entered, no backend call is made and no marker file is created or
\* moved.
C27_FailFastBeforeRoutes ==
    /\ [](pc \in RoutePcs => (wren_path = "found" /\ Returned))
    /\ []((LocatorFailed \/ ResolverFailed) =>
            /\ Terminated /\ pc \notin RoutePcs
            /\ calls = <<>>
            /\ ~Did("open_x") /\ ~Did("move") /\ ~Did("mkdir_done"))
    /\ [][(LocatorFailed' \/ ResolverFailed') => UNCHANGED <<dirs, files, creations>>]_vars

\* C27 witness: a cron task was asked for, the backend was found, the
\* configuration was well formed but the notes directory could not be
\* made: exit 1 with no call and no file.
C27_Witness ==
    /\ "cron" \in given /\ wren_path = "found"
    /\ ResolverFailed /\ config.kind = "ok" /\ Did("mkdir_notes")
    /\ pc = "exit" /\ exitCode = <<1>> /\ calls = <<>> /\ files = <<>>

\* The exit codes the wrapper defines itself.
WrapperCodes == {0, 1, 2}

\* The run ended by passing on the exit code of its last backend call.
MirrorsBackend == calls # <<>> /\ exitCode = <<calls[Len(calls)].returncode>>

\* C28: every wrapper invocation that terminates does so through an explicit
\* exit whose code is the backend's exit code or one of the wrapper's codes
\* 0, 1, 2; no path ends in an unhandled fault.
C28_ExplicitExitOnly ==
    /\ pc # "fault"
    /\ pc = "exit" => (MirrorsBackend \/ (Len(exitCode) = 1 /\ exitCode[1] \in WrapperCodes))

\* A line without its leading "- ", written position by position.
WithoutMarker(line) ==
    IF Len(line) >= 2 /\ line[1] = "-" /\ line[2] = " "
    THEN [i \in 1..(Len(line) - 2) |-> line[i + 2]]
    ELSE line

\* C29: for every backend stdout text the candidate list equals, in the
\* original line order and without deduplication, the whitespace-trimmed
\* lines that are non-empty and do not start with "Error -", each with a
\* leading "- " removed when present; the candidate count is the number of
\* such lines.
C29_CandidatesAreTrimmedLines ==
    parsed.pc = "done" =>
        LET expected == CandidateLines(parsed.stdout)
        IN  /\ Len(parsed.candidates) = Len(expected)
            /\ \A i \in 1..Len(expected) : parsed.candidates[i] = WithoutMarker(expected[i])

\* C29 witness: a marked line, an error line and the same title unmarked
\* were parsed into the candidates a, a.
C29_Witness ==
    /\ parsed.pc = "done"
    /\ parsed.stdout = JoinLines(<< <<"-", " ", "a">>,
                                    <<"E", "r", "r", "o", "r", " ", "-", " ", "x">>,
                                    <<"a">> >>)
    /\ parsed.candidates = << <<"a">>, <<"a">> >>

\* Exactly one of cron/future/exact is given, and help is not.
OneHelper == Cardinality(given \cap WrapperCommands) = 1 /\ "help" \notin given

CronPcs == {"cron_prompt", "cron_create"}
FuturePcs == {"future", "zenity", "date_prompt", "future_create"}
ExactPcs == {"exact", "exact_move"}

\* The control points of the handler the invocation asked for.
OwnPcs ==
    IF "cron" \in given THEN CronPcs
    ELSE IF "future" \in given THEN FuturePcs
    ELSE ExactPcs

\* Help output, the disambiguator and the proxy.
OtherRoutePcs == {"help_print", "hid_list", "hid_proxy", "select", "hid_final", "proxy"}

\* What lines 377-406 and run_wren log in verbose mode.
AfterHandlerLogs ==
    {"d_index", "done_pattern", "remaining_args", "calling handle_interactive_done",
     "Finding candidates", "proxying to wren", "Executing"}

\* C30: when exactly one of cron/future/exact is given and help is not, the
\* invocation takes that one route: the backend is never invoked, the
\* residual arguments are not looked at, and control never leaves the
\* handler for the done-detection or proxy code.
C30_OneHelperOneRoute ==
    /\ [](OneHelper =>
            /\ calls = <<>>
            /\ pattern = <<>> /\ candidates = <<>> /\ final_args = <<>>
            /\ pc \notin OtherRoutePcs
            /\ pc \in (CronPcs \cup FuturePcs \cup ExactPcs) => pc \in OwnPcs
            /\ \A i \in 1..Len(err) : err[i][2] \notin AfterHandlerLogs)
    /\ [][(OneHelper /\ pc \in OwnPcs) => pc' \in OwnPcs \cup {"exit", "fault"}]_vars

\* C30 witness: --exact given together with a mark-done pattern among the
\* residual arguments: the file was moved, exit 0, no backend call.
C30_Witness ==
    /\ OneHelper /\ "exact" \in given /\ DonePattern(remaining_args) # <<>>
    /\ pc = "exit" /\ exitCode = <<0>> /\ Did("move") /\ calls = <<>>

\* The position of the token after the mark-done flag that supplied the
\* pattern.
PatternPosition == d_index(remaining_args) + 1

\* C31: when the disambiguator is entered from main and a valid selection is
\* made, the token replaced by the chosen title is the one immediately after
\* the mark-done flag that supplied the pattern; the flag and every other
\* residual token keep value and position, also when the pattern text occurs
\* elsewhere in the residual arguments.
C31_ReplacesTokenAfterFlag ==
    (EnteredHid /\ final_args # <<>>) =>
        /\ Len(final_args) = Len(remaining_args)
        /\ final_args[PatternPosition] = candidates[choice]
        /\ \A i \in 1..Len(remaining_args) :
              i # PatternPosition => final_args[i] = remaining_args[i]

\* The file at path p is new or has new content after the step.
Written(p) == p \in DOMAIN files' /\ (p \notin DOMAIN files \/ files'[p] # files[p])

\* A path directly inside the notes directory, directly inside its done
\* subdirectory.
InNotes(p) == Len(p) = 1
InDone(p) == Len(p) = 2 /\ p[1] = Done

\* C32: every file the cron and future helpers create is a direct child of
\* the notes directory, and every file exact-done moves is taken from
\* directly inside the notes directory and placed directly inside its done
\* subdirectory, whatever the title and the schedule or date contain.
C32_StaysInNotesAndDone ==
    [][ /\ pc \in {"cron_create", "future_create"} =>
              \A p \in DOMAIN files' : Written(p) => InNotes(p)
        /\ pc = "exact_move" =>
              /\ \A p \in DOMAIN files \ DOMAIN files' : InNotes(p)
              /\ \A p \in DOMAIN files' : Written(p) => InDone(p) ]_vars

\* C33: when run_on_interval is started once on every consecutive calendar
\* day with a fixed interval and offset, any two consecutive days on which
\* the command is executed are exactly interval days apart, also across the
\* reset of the day-of-year counter at a year boundary.
C33_ExecutionsIntervalApart ==
    \A i \in 1..(Len(roi.executed) - 1) :
        roi.executed[i + 1] - roi.executed[i] = IntVal(roi.interval_arg)

====
